---------------------------- MODULE Spec2Model ----------------------------
(***************************************************************************)
(* Model of src/app.py: the contract map built from a spreadsheet, the     *)
(* token extraction and contract matching of a PDF's first-page text, the  *)
(* renaming of the PDFs of the storage folder by the background pass, and  *)
(* the job status a poll reads.                                            *)
(*                                                                         *)
(* Texts and file names are sequences of one-character strings, so that    *)
(* the regular expressions and the name arithmetic of the code are         *)
(* computed, not assumed.                                                  *)
(***************************************************************************)
EXTENDS Naturals, Sequences, FiniteSets, TLC

(***************************************************************************)
(* Bounds of the model.                                                    *)
(***************************************************************************)
\* number of batch uploads the model accepts (each schedules one job)
MaxBatches == 2
\* number of rows of a spreadsheet
MaxRows == 2
\* number of uploads in the folder a single pass starts from
MaxUploads == 3
\* the clock int(time.time()) runs over 0..MaxTime
MaxTime == 1

(***************************************************************************)
(* Characters.                                                             *)
(***************************************************************************)
DigitChars == <<"0", "1", "2", "3", "4", "5", "6", "7", "8", "9">>
UpperChars == <<"A", "B", "C", "D", "E", "F", "G", "H", "I", "J", "K", "L", "M",
                "N", "O", "P", "Q", "R", "S", "T", "U", "V", "W", "X", "Y", "Z">>
LowerChars == <<"a", "b", "c", "d", "e", "f", "g", "h", "i", "j", "k", "l", "m",
                "n", "o", "p", "q", "r", "s", "t", "u", "v", "w", "x", "y", "z">>

Range(s) == {s[i] : i \in 1..Len(s)}

\* \d
IsDigit(c) == c \in Range(DigitChars)

\* \s
IsSpace(c) == c \in {" ", "\n", "\t", "\r"}

\* \w
IsWordChar(c) == c \in Range(DigitChars) \cup Range(UpperChars) \cup Range(LowerChars) \cup {"_"}

\* str.lower() of one character
LowerChar(c) ==
    IF c \in Range(UpperChars)
    THEN LowerChars[CHOOSE k \in 1..26 : UpperChars[k] = c]
    ELSE c

\* str.lower()
ToLower(s) == [i \in 1..Len(s) |-> LowerChar(s[i])]

\* s[a..b], empty when b < a
Slice(s, a, b) == IF b < a THEN <<>> ELSE SubSeq(s, a, b)

\* whether sub occurs in s at position i
OccursAt(sub, s, i) ==
    /\ i >= 1
    /\ i + Len(sub) - 1 <= Len(s)
    /\ \A k \in 1..Len(sub) : s[i + k - 1] = sub[k]

\* the `in` of two strings
Contains(sub, s) == \E i \in 1..(Len(s) + 1) : OccursAt(sub, s, i)

\* str.endswith
EndsWith(s, suffix) == OccursAt(suffix, s, Len(s) - Len(suffix) + 1)

\* \b between s[k-1] and s[k], k in 1..Len(s)+1
BoundaryAt(s, k) ==
    (k > 1 /\ IsWordChar(s[k - 1])) # (k <= Len(s) /\ IsWordChar(s[k]))

\* length of the run of digits that starts at s[i]
RECURSIVE DigitRun(_, _)
DigitRun(s, i) ==
    IF i <= Len(s) /\ IsDigit(s[i]) THEN 1 + DigitRun(s, i + 1) ELSE 0

\* length of the run of [:\s] that starts at s[i]
RECURSIVE SepRun(_, _)
SepRun(s, i) ==
    IF i <= Len(s) /\ (s[i] = ":" \/ IsSpace(s[i])) THEN 1 + SepRun(s, i + 1) ELSE 0

\* length of the run of \s that starts at s[i]
RECURSIVE SpaceRun(_, _)
SpaceRun(s, i) ==
    IF i <= Len(s) /\ IsSpace(s[i]) THEN 1 + SpaceRun(s, i + 1) ELSE 0

\* length of the run of [^/] that starts at s[i]
RECURSIVE NonSlashRun(_, _)
NonSlashRun(s, i) ==
    IF i <= Len(s) /\ s[i] # "/" THEN 1 + NonSlashRun(s, i + 1) ELSE 0

\* str.strip()
RECURSIVE Strip(_)
Strip(s) ==
    IF s = <<>> THEN s
    ELSE IF IsSpace(s[1]) THEN Strip(Tail(s))
    ELSE IF IsSpace(s[Len(s)]) THEN Strip(SubSeq(s, 1, Len(s) - 1))
    ELSE s

\* str(n) of a natural number
RECURSIVE Decimal(_)
Decimal(n) ==
    IF n < 10 THEN <<DigitChars[n + 1]>>
    ELSE Decimal(n \div 10) \o <<DigitChars[(n % 10) + 1]>>


(***************************************************************************)
(* TokenExtractor: extract_contract_from_pdf and                           *)
(* extract_invoice_number_from_pdf, on the text of the first page.         *)
(***************************************************************************)
\* r'\b\d{6}\b' matches at s[i]
Match6At(s, i) ==
    /\ BoundaryAt(s, i)
    /\ DigitRun(s, i) >= 6
    /\ BoundaryAt(s, i + 6)

\* re.findall(r'\b\d{6}\b', text): the matches from s[i] on, in order of occurrence
RECURSIVE FindAll6(_, _)
FindAll6(s, i) ==
    IF i > Len(s) THEN <<>>
    ELSE IF Match6At(s, i) THEN <<SubSeq(s, i, i + 5)>> \o FindAll6(s, i + 6)
    ELSE FindAll6(s, i + 1)

\* A PDF's content is a record: kind "pdf" (pages, the number of pages, and text, the
\* text of the first page), "bad" (pdfplumber cannot open it), "zip" or "badzip".
\* A missing file is NoFile: opening it raises.
NoFile == [kind |-> "missing"]

\* extract_contract_from_pdf: list(set(candidates)) as the set it enumerates
extract_contract_from_pdf(content) ==
    IF content.kind = "pdf" /\ content.pages > 0 /\ content.text # <<>>
    THEN Range(FindAll6(content.text, 1))
    ELSE {}

\* the lists list(set(S)) may return: every enumeration of S without repetition
Orders(S) ==
    {o \in [1..Cardinality(S) -> S] : \A i, j \in 1..Cardinality(S) : o[i] = o[j] => i = j}

FacturaWord == <<"f", "a", "c", "t", "u", "r", "a">>

\* r'\bFactura[:\s]*(\d{8,})\b' with re.IGNORECASE: start of group 1 when the pattern
\* matches at s[i], else 0
P1Group(s, i) ==
    LET j == i + Len(FacturaWord) + SepRun(s, i + Len(FacturaWord))
    IN  IF /\ BoundaryAt(s, i)
           /\ OccursAt(FacturaWord, ToLower(s), i)
           /\ DigitRun(s, j) >= 8
           /\ BoundaryAt(s, j + DigitRun(s, j))
        THEN j ELSE 0

\* r'\bN[:\s]*(\d{8,})\b' with re.IGNORECASE
P2Group(s, i) ==
    LET j == i + 1 + SepRun(s, i + 1)
    IN  IF /\ BoundaryAt(s, i)
           /\ LowerChar(s[i]) = "n"
           /\ DigitRun(s, j) >= 8
           /\ BoundaryAt(s, j + DigitRun(s, j))
        THEN j ELSE 0

\* r'\b(\d{8})\b'
P3Group(s, i) ==
    IF BoundaryAt(s, i) /\ DigitRun(s, i) >= 8 /\ BoundaryAt(s, i + 8) THEN i ELSE 0

\* r'\b(\d{9,})\b', and r'\b(\d{8,})\b' with least = 8
PNGroup(s, i, least) ==
    IF /\ BoundaryAt(s, i)
       /\ DigitRun(s, i) >= least
       /\ BoundaryAt(s, i + DigitRun(s, i))
    THEN i ELSE 0

\* group 1 of pattern number p at s[i] (its start, 0 when there is no match)
PatternGroup(p, s, i) ==
    CASE p = 1 -> P1Group(s, i)
      [] p = 2 -> P2Group(s, i)
      [] p = 3 -> P3Group(s, i)
      [] p = 4 -> PNGroup(s, i, 9)
      [] OTHER -> PNGroup(s, i, 8)

\* re.findall(pattern, text)[0]: group 1 of the leftmost match, <<>> when none.
\* The digits captured are the run that starts at the group, cut to 8 for pattern 3.
FirstMatch(p, s) ==
    LET hits == {i \in 1..Len(s) : PatternGroup(p, s, i) > 0}
    IN  IF hits = {} THEN <<>>
        ELSE LET i == CHOOSE h \in hits : \A g \in hits : h <= g
                 j == PatternGroup(p, s, i)
             IN  SubSeq(s, j, j + (IF p = 3 THEN 8 ELSE DigitRun(s, j)) - 1)

\* text.split('\n')
RECURSIVE Lines(_)
Lines(s) ==
    IF \A i \in 1..Len(s) : s[i] # "\n" THEN <<s>>
    ELSE LET k == CHOOSE i \in 1..Len(s) : s[i] = "\n" /\ \A h \in 1..(i - 1) : s[h] # "\n"
         IN  <<Slice(s, 1, k - 1)>> \o Lines(Slice(s, k + 1, Len(s)))

\* the loop over lines[:5]: the first r'\b(\d{8,})\b' of the first line that has one
RECURSIVE FirstInLines(_, _)
FirstInLines(ls, left) ==
    IF ls = <<>> \/ left = 0 THEN <<>>
    ELSE IF FirstMatch(5, Head(ls)) # <<>> THEN FirstMatch(5, Head(ls))
    ELSE FirstInLines(Tail(ls), left - 1)

\* the loop over the four patterns: the first match of the first pattern that has one
RECURSIVE FirstPattern(_, _)
FirstPattern(p, s) ==
    IF p > 4 THEN FirstInLines(Lines(s), 5)
    ELSE IF FirstMatch(p, s) # <<>> THEN FirstMatch(p, s)
    ELSE FirstPattern(p + 1, s)

\* extract_invoice_number_from_pdf; <<>> stands for None
extract_invoice_number_from_pdf(content) ==
    IF content.kind = "pdf" /\ content.pages > 0 /\ content.text # <<>>
    THEN FirstPattern(1, content.text)
    ELSE <<>>

(***************************************************************************)
(* File names.                                                             *)
(***************************************************************************)
PdfExt == <<".", "p", "d", "f">>
ZipExt == <<".", "z", "i", "p">>

\* filename.lower().endswith('.pdf')
IsPdfName(name) == EndsWith(ToLower(name), PdfExt)

\* filename.lower().endswith('.zip')
IsZipName(name) == EndsWith(ToLower(name), ZipExt)

\* str.rfind of one character, 1-based, 0 when absent
LastIndex(s, c) ==
    IF \A i \in 1..Len(s) : s[i] # c THEN 0
    ELSE CHOOSE i \in 1..Len(s) : s[i] = c /\ \A k \in (i + 1)..Len(s) : s[k] # c

\* os.path.basename
Basename(path) == Slice(path, LastIndex(path, "/") + 1, Len(path))

\* os.path.splitext(name)[0]
SplitextRoot(name) ==
    LET dot == LastIndex(name, ".")
        sep == LastIndex(name, "/")
    IN  IF dot > sep /\ \E k \in (sep + 1)..(dot - 1) : name[k] # "."
        THEN Slice(name, 1, dot - 1)
        ELSE name

ForbiddenChars == {"\\", "/", "*", "?", ":", "\"", "<", ">", "|"}

\* re.sub(r'[\\/*?:"<>|]', "", new_name)
Sanitize(name) == SelectSeq(name, LAMBDA c : c \notin ForbiddenChars)

\* f"{int(time.time())}_{name}"
TimestampName(t, name) == Decimal(t) \o <<"_">> \o name

(***************************************************************************)
(* MatchResolver: the loop over the candidates of process_pending_files.   *)
(***************************************************************************)
\* the first contract of the list that is a key of the map, <<>> when none is
RECURSIVE FirstInMap(_, _)
FirstInMap(candidates, map) ==
    IF candidates = <<>> THEN <<>>
    ELSE IF Head(candidates) \in DOMAIN map THEN Head(candidates)
    ELSE FirstInMap(Tail(candidates), map)

\* new_name after the loop, for the contract found
NewName(filename, found, map, invoice_number) ==
    IF found = <<>> THEN filename
    ELSE IF invoice_number # <<>>
    THEN Sanitize(map[found] \o <<" ", "-", " ">> \o invoice_number \o PdfExt)
    ELSE Sanitize(map[found] \o <<" ", "-", " ">> \o SplitextRoot(filename) \o PdfExt)

(***************************************************************************)
(* NameAllocator: the name a file is moved to, given the names present.    *)
(***************************************************************************)
\* lines 471-474 (and 432-434): the desired name when it is free, else the desired
\* name prefixed by the clock, whether or not that one is free
AllocateName(desired, names, t) ==
    IF desired \in names THEN TimestampName(t, desired) ELSE desired


(***************************************************************************)
(* ContractMapBuilder: extract_contract_from_excel.                        *)
(* A spreadsheet is a record: sheet (whether it has the sheet              *)
(* 'Duenos 3rd Party'), columns (the headers) and rows (each a sequence of *)
(* cells, one per column, as str() renders them).                          *)
(***************************************************************************)
ContratoWord == <<"c", "o", "n", "t", "r", "a", "t", "o">>
ReferenciaWord == <<"r", "e", "f", "e", "r", "e", "n", "c", "i", "a">>

EmptyMap == [k \in {} |-> <<>>]

\* line 101: the first column whose header, lowered, contains 'referencia'; 0 for None
TargetRef(columns) ==
    LET hits == {c \in 1..Len(columns) : Contains(ReferenciaWord, ToLower(columns[c]))}
    IN  IF hits = {} THEN 0 ELSE CHOOSE c \in hits : \A d \in hits : c <= d

\* r'Contrato\s*(\d+)/([^/]+)' with re.IGNORECASE matches at s[i]: start of group 1, else 0
ContratoGroup(s, i) ==
    LET j == i + Len(ContratoWord) + SpaceRun(s, i + Len(ContratoWord))
        r == DigitRun(s, j)
    IN  IF /\ OccursAt(ContratoWord, ToLower(s), i)
           /\ r >= 1
           /\ j + r <= Len(s)
           /\ s[j + r] = "/"
           /\ NonSlashRun(s, j + r + 1) >= 1
        THEN j ELSE 0

\* re.search on a cell: <<contract_num, ubicacion>> of the leftmost match, <<>> when none
SearchContrato(s) ==
    LET hits == {i \in 1..Len(s) : ContratoGroup(s, i) > 0}
    IN  IF hits = {} THEN <<>>
        ELSE LET i == CHOOSE h \in hits : \A g \in hits : h <= g
                 j == ContratoGroup(s, i)
                 r == DigitRun(s, j)
             IN  << Strip(SubSeq(s, j, j + r - 1)),
                    Strip(SubSeq(s, j + r + 1, j + r + NonSlashRun(s, j + r + 1))) >>

\* the map after CONTRACT_MAP[contract_num] = ubicacion
SetItem(map, key, value) ==
    [k \in DOMAIN map \cup {key} |-> IF k = key THEN value ELSE map[k]]

\* a variant of AddMatch that keeps the first location of a contract
AddMatchKeepFirst(map, match) ==
    IF match = <<>> \/ match[1] \in DOMAIN map THEN map ELSE SetItem(map, match[1], match[2])

\* lines 107-113: the map after one row whose reference cell matched as `match`
\* (<<>> when it did not)
AddMatch(map, match) ==
    IF match = <<>> THEN map ELSE SetItem(map, match[1], match[2])

\* lines 107-113: the map after one row whose reference cell is `cell`
AddRow(map, cell) == AddMatch(map, SearchContrato(cell))

\* line 98: the map extract_contract_from_excel starts from
FreshMap(map) == EmptyMap


\* lines 98-114 without a break: the map a spreadsheet with these reference cells gives
RECURSIVE AddRows(_, _)
AddRows(map, cells) ==
    IF cells = <<>> THEN map ELSE AddRows(AddRow(map, Head(cells)), Tail(cells))

(***************************************************************************)
(* The storage folder PDF_FOLDER: a function from the names present to     *)
(* the contents of the files.                                              *)
(***************************************************************************)
EmptyFolder == [n \in {} |-> NoFile]

\* the content open() finds under a name
ContentOf(fs, name) == IF name \in DOMAIN fs THEN fs[name] ELSE NoFile

\* the folder after a file is written (or replaced) under a name
WriteFile(fs, name, content) ==
    [n \in DOMAIN fs \cup {name} |-> IF n = name THEN content ELSE fs[n]]

\* the folder after os.remove / os.unlink
RemoveFile(fs, name) == [n \in DOMAIN fs \ {name} |-> fs[n]]

\* shutil.move(src, dest) inside the folder: dest is replaced when present
MoveFile(fs, src, dest) == WriteFile(RemoveFile(fs, src), dest, fs[src])

\* "_".join(filename.split()) of werkzeug's secure_filename
RECURSIVE JoinWords(_)
JoinWords(s) ==
    IF s = <<>> THEN <<>>
    ELSE IF IsSpace(s[1])
    THEN IF SpaceRun(s, 1) = Len(s) THEN <<>>
         ELSE <<"_">> \o JoinWords(Slice(s, SpaceRun(s, 1) + 1, Len(s)))
    ELSE <<s[1]>> \o JoinWords(Tail(s))

\* str.strip("._")
RECURSIVE StripDots(_)
StripDots(s) ==
    IF s = <<>> THEN s
    ELSE IF s[1] \in {".", "_"} THEN StripDots(Tail(s))
    ELSE IF s[Len(s)] \in {".", "_"} THEN StripDots(SubSeq(s, 1, Len(s) - 1))
    ELSE s

\* line 243, secure_filename(file.filename): path separators become spaces, the words
\* are joined by "_", characters outside [A-Za-z0-9_.-] go, and "._" is stripped
secure_filename(name) ==
    LET spaced == [i \in 1..Len(name) |-> IF name[i] = "/" THEN " " ELSE name[i]]
        joined == JoinWords(Strip(spaced))
        ascii  == SelectSeq(joined, LAMBDA c : IsWordChar(c) \/ c \in {".", "-"})
    IN  StripDots(ascii)

\* lines 239-247: the folder after the uploads that did not fail are saved, each under
\* the name secure gives it
SaveUploads(fs, saved, secure) ==
    LET names == {secure[u.name] : u \in saved}
    IN  [n \in DOMAIN fs \cup names |->
            IF n \in names
            THEN (CHOOSE u \in saved : secure[u.name] = n).content
            ELSE fs[n]]

\* lines 428-430: the members of an extracted archive that are moved to the folder
PdfMembers(zip) == {m \in zip.members : IsPdfName(Basename(m.path))}

(***************************************************************************)
(* The files and spreadsheets of the model.                                *)
(***************************************************************************)
\* contract 123456 and invoice 20240001
TextA == <<"F", "a", "c", "t", "u", "r", "a", " ", "2", "0", "2", "4", "0", "0", "0", "1", " ",
           "C", "o", "n", "t", "r", "a", "t", "o", " ", "1", "2", "3", "4", "5", "6", "/", "A">>
\* a contract no spreadsheet has
TextB == <<"R", "e", "f", " ", "6", "5", "4", "3", "2", "1">>
\* contract 123456 and no invoice
TextC == <<"C", "o", "n", "t", "r", "a", "t", "o", " ", "1", "2", "3", "4", "5", "6">>
\* contract 222222 first, then 123456, then 222222 again
TextD == <<"2", "2", "2", "2", "2", "2", " ", "y", " ", "1", "2", "3", "4", "5", "6", " ",
           "y", " ", "2", "2", "2", "2", "2", "2">>

PdfA == [kind |-> "pdf", pages |-> 1, text |-> TextA]
PdfB == [kind |-> "pdf", pages |-> 1, text |-> TextB]
PdfC == [kind |-> "pdf", pages |-> 1, text |-> TextC]
PdfD == [kind |-> "pdf", pages |-> 1, text |-> TextD]
PdfBad == [kind |-> "bad"]
ZipBad == [kind |-> "badzip"]

\* z.zip holds a.pdf, s/a.pdf, b.txt and s/in.zip
ZipZ == [kind |-> "zip",
         members |-> { [path |-> <<"a", ".", "p", "d", "f">>, content |-> PdfA],
                       [path |-> <<"s", "/", "a", ".", "p", "d", "f">>, content |-> PdfB],
                       [path |-> <<"b", ".", "t", "x", "t">>, content |-> [kind |-> "other"]],
                       [path |-> <<"s", "/", "i", "n", ".", "z", "i", "p">>,
                        content |-> ZipBad] }]

UploadA == [name |-> <<"a", ".", "p", "d", "f">>, content |-> PdfA]
UploadB == [name |-> <<"b", ".", "p", "d", "f">>, content |-> PdfA]
UploadC == [name |-> <<"c", " ", "d", ".", "P", "D", "F">>, content |-> PdfC]
UploadD == [name |-> <<"d", ".", "p", "d", "f">>, content |-> PdfD]
UploadX == [name |-> <<"x", ".", "p", "d", "f">>, content |-> PdfBad]
UploadZ == [name |-> <<"z", ".", "z", "i", "p">>, content |-> ZipZ]
UploadK == [name |-> <<"k", ".", "z", "i", "p">>, content |-> ZipBad]

Uploads == {UploadA, UploadB, UploadC, UploadD, UploadX, UploadZ, UploadK}

\* line 243: the name each upload is saved under, computed once
SecureNames == [n \in {u.name : u \in Uploads} |-> secure_filename(n)]

\* every content a file of the folder may have
Contents ==
    {u.content : u \in Uploads} \cup {m.content : m \in ZipZ.members} \cup {NoFile}

\* lines 448-449: the tokens of each content, computed once
Tokens ==
    [c \in Contents |-> [candidates |-> extract_contract_from_pdf(c),
                         invoice_number |-> extract_invoice_number_from_pdf(c)]]

CellA == <<"C", "o", "n", "t", "r", "a", "t", "o", " ", "1", "2", "3", "4", "5", "6", "/", "A">>
CellB == <<"c", "o", "n", "t", "r", "a", "t", "o", "2", "2", "2", "2", "2", "2", "/", " ", "B", " ", "/", "x">>
CellC == <<"x", " ", "C", "O", "N", "T", "R", "A", "T", "O", "\t", "1", "2", "3", "4", "5", "6", "/", "C", "\n">>
CellD == <<"C", "o", "n", "t", "r", "a", "t", "o", " ", "/", "A">>
CellNan == <<"n", "a", "n">>
Cells == {CellA, CellB, CellC, CellD, CellNan}

HeadName == <<"N", "o", "m", "b", "r", "e">>
HeadRef == <<"R", "e", "f", "e", "r", "e", "n", "c", "i", "a", " ", "1">>

\* a spreadsheet whose only column is the reference column
RefSheet(cells) ==
    [sheet |-> TRUE, columns |-> <<HeadRef>>, rows |-> [i \in 1..Len(cells) |-> <<cells[i]>>]]

\* 222222 -> B, then 123456 -> A, with a column before the reference column
SheetAB == [sheet |-> TRUE, columns |-> <<HeadName, HeadRef>>,
            rows |-> << <<CellA, CellB>>, <<CellNan, CellA>> >>]
\* no reference column
SheetNoColumn == [sheet |-> TRUE, columns |-> <<HeadName>>, rows |-> << <<CellA>> >>]
\* no sheet 'Duenos 3rd Party'
SheetNoSheet == [sheet |-> FALSE, columns |-> <<>>, rows |-> <<>>]

\* the spreadsheets of at most MaxRows rows
AllSheets ==
    {RefSheet(cells) : cells \in UNION {[1..n -> Cells] : n \in 0..MaxRows}}
      \cup {SheetAB, SheetNoColumn, SheetNoSheet}

\* the spreadsheets and the batches of the runs where requests and jobs interleave
FewSheets == {SheetAB}
FewBatches == {{UploadA, UploadK}}

(***************************************************************************)
(* State.                                                                  *)
(***************************************************************************)
VARIABLES
    CONTRACT_MAP,             \* line 37
    IS_PROCESSING,            \* line 38
    LAST_PROCESSING_SUMMARY,  \* line 39
    folder,                   \* the files of PDF_FOLDER
    now,                      \* int(time.time())
    fg,                       \* the request handler in progress
    jobs,                     \* the jobs given to the scheduler, by number
    nextJob                   \* the number of the next job

vars == <<CONTRACT_MAP, IS_PROCESSING, LAST_PROCESSING_SUMMARY, folder, now, fg, jobs,
          nextJob>>

JobIds == 1..MaxBatches

Summary(p, e) == [processed |-> p, errors |-> e]

\* a job the scheduler has not been given
NoJob == [pc |-> "none", inline |-> FALSE, save_errors |-> 0, zips |-> {}, pdfs |-> {},
          cur |-> <<>>, caught |-> FALSE, outcome |-> ""]

\* a job the scheduler has been given (lines 263-268) or the handler runs (line 271)
NewJob(inline, save_errors) ==
    [NoJob EXCEPT !.pc = "pending", !.inline = inline, !.save_errors = save_errors]

\* no handler in progress; sheet is the spreadsheet of the last upload_excel
Idle(sheet) == [pc |-> "idle", sheet |-> sheet, row |-> 0, job |-> 0, prev |-> EmptyMap]

Init ==
    /\ CONTRACT_MAP = EmptyMap
    /\ IS_PROCESSING = FALSE
    /\ LAST_PROCESSING_SUMMARY = Summary(0, 0)
    /\ folder = EmptyFolder
    /\ now = 0
    /\ fg = Idle(<<>>)
    /\ jobs = [j \in JobIds |-> NoJob]
    /\ nextJob = 1

\* lines 488-490: the response of a status poll in the current state
processing_status == [processing |-> IS_PROCESSING, summary |-> LAST_PROCESSING_SUMMARY]

\* the clock advances by a second
Tick ==
    /\ now < MaxTime
    /\ now' = now + 1
    /\ UNCHANGED <<CONTRACT_MAP, IS_PROCESSING, LAST_PROCESSING_SUMMARY, folder, fg, jobs,
                   nextJob>>


(***************************************************************************)
(* Request handlers.  One request is handled at a time; the jobs of the    *)
(* scheduler run in threads of their own, between the steps of a handler.  *)
(***************************************************************************)
\* lines 54-60, clear_folders: the map is emptied unless the spreadsheet is kept
ClearedMap(map, keep_excel) == IF keep_excel THEN map ELSE EmptyMap

\* line 101 for each header row of the model, computed once
RefColumn == [columns \in {s.columns : s \in AllSheets} |-> TargetRef(columns)]

\* lines 100-103: whether read_excel finds the sheet and the loop finds the column
SchemaOk(sheet) == sheet.sheet /\ RefColumn[sheet.columns] > 0

\* line 107: the reference cells of the rows
RefCells(sheet) ==
    [i \in 1..Len(sheet.rows) |-> sheet.rows[i][RefColumn[sheet.columns]]]

\* lines 192-211 and 96-103, upload_excel up to the loop over the rows:
\* clear_folders(keep_excel=False), then extract_contract_from_excel empties the map,
\* reads the sheet and looks for the reference column
upload_excel_begin(sheet) ==
    /\ fg.pc = "idle"
    /\ fg' = IF SchemaOk(sheet) /\ Len(sheet.rows) > 0
             THEN [pc |-> "rows", sheet |-> sheet, row |-> 1, job |-> 0,
                   prev |-> CONTRACT_MAP]
             ELSE Idle(sheet)
    /\ folder' = EmptyFolder
    /\ CONTRACT_MAP' = FreshMap(ClearedMap(CONTRACT_MAP, FALSE))
    /\ UNCHANGED <<IS_PROCESSING, LAST_PROCESSING_SUMMARY, now, jobs, nextJob>>

\* lines 106-114, one turn of the loop over the rows; the handler returns after the last
upload_excel_row ==
    /\ fg.pc = "rows"
    /\ CONTRACT_MAP' = AddRow(CONTRACT_MAP, RefCells(fg.sheet)[fg.row])
    /\ fg' = IF fg.row < Len(fg.sheet.rows)
             THEN [fg EXCEPT !.row = fg.row + 1]
             ELSE Idle(fg.sheet)
    /\ UNCHANGED <<IS_PROCESSING, LAST_PROCESSING_SUMMARY, folder, now, jobs, nextJob>>

\* lines 226-273, process_pdfs: rejected while the map is empty; the uploads are saved
\* (a save that raises is counted in save_errors) and a job is given to the scheduler.
\* When add_job raises, the handler runs the job itself before it returns.
process_pdfs(batch, failed, inline) ==
    /\ fg.pc = "idle"
    /\ nextJob <= MaxBatches
    /\ CONTRACT_MAP # EmptyMap
    /\ batch # {}
    /\ folder' = SaveUploads(folder, batch \ failed, SecureNames)
    /\ jobs' = [jobs EXCEPT ![nextJob] = NewJob(inline, Cardinality(failed))]
    /\ fg' = IF inline THEN [fg EXCEPT !.pc = "inline", !.job = nextJob] ELSE fg
    /\ nextJob' = nextJob + 1
    /\ UNCHANGED <<CONTRACT_MAP, IS_PROCESSING, LAST_PROCESSING_SUMMARY, now>>

\* lines 226-273, process_pdfs for a request whose files all have an empty name: line 232
\* finds files, lines 241-242 skip each of them, nothing is saved and nothing is counted
\* in save_errors, and a job is given to the scheduler (or run by the handler)
process_pdfs_unnamed(inline) ==
    /\ fg.pc = "idle"
    /\ nextJob <= MaxBatches
    /\ CONTRACT_MAP # EmptyMap
    /\ jobs' = [jobs EXCEPT ![nextJob] = NewJob(inline, 0)]
    /\ fg' = IF inline THEN [fg EXCEPT !.pc = "inline", !.job = nextJob] ELSE fg
    /\ nextJob' = nextJob + 1
    /\ UNCHANGED <<CONTRACT_MAP, IS_PROCESSING, LAST_PROCESSING_SUMMARY, folder, now>>

\* line 273 after line 271: the handler returns once the job it ran itself is over
process_pdfs_return ==
    /\ fg.pc = "inline"
    /\ jobs[fg.job].pc = "done"
    /\ fg' = Idle(fg.sheet)
    /\ UNCHANGED <<CONTRACT_MAP, IS_PROCESSING, LAST_PROCESSING_SUMMARY, folder, now, jobs,
                   nextJob>>

(***************************************************************************)
(* A job: _run_async_processing, whose steps are the statements of its     *)
(* body and, inside process_pending_files, the turns of the two loops.     *)
(* os.walk lists the folder in no particular order: a loop takes any of    *)
(* the files it has left.                                                  *)
(***************************************************************************)
SetJob(j, job) == [jobs EXCEPT ![j] = job]

\* line 252
JobStart(j) ==
    /\ jobs[j].pc = "pending"
    /\ IS_PROCESSING' = TRUE
    /\ jobs' = SetJob(j, [jobs[j] EXCEPT !.pc = "pass"])
    /\ UNCHANGED <<CONTRACT_MAP, LAST_PROCESSING_SUMMARY, folder, now, fg, nextJob>>

\* lines 414-419: the extraction folder is made and the first walk lists the archives
PassBegin(j) ==
    /\ jobs[j].pc = "pass"
    /\ jobs' = SetJob(j, [jobs[j] EXCEPT !.pc = "zips",
                                         !.zips = {n \in DOMAIN folder : IsZipName(n)}])
    /\ UNCHANGED <<CONTRACT_MAP, IS_PROCESSING, LAST_PROCESSING_SUMMARY, folder, now, fg,
                   nextJob>>

\* line 415 raises (os.makedirs fails): nothing in process_pending_files handles it
PassRaises(j) ==
    /\ jobs[j].pc = "pass"
    /\ jobs' = SetJob(j, [jobs[j] EXCEPT !.pc = "except"])
    /\ UNCHANGED <<CONTRACT_MAP, IS_PROCESSING, LAST_PROCESSING_SUMMARY, folder, now, fg,
                   nextJob>>

\* lines 428-435: the folder after the PDF members of an archive are moved in, in the
\* order the walk of the extraction folder gives them
RECURSIVE MoveMembers(_, _, _)
MoveMembers(fs, members, t) ==
    IF members = <<>> THEN fs
    ELSE LET f    == Basename(Head(members).path)
             dest == AllocateName(f, DOMAIN fs, t)
         IN  MoveMembers(WriteFile(fs, dest, Head(members).content), Tail(members), t)

\* a variant of OnZipError that lets the exception leave process_pending_files
OnZipErrorRaises(job, z) == [job EXCEPT !.pc = "except", !.caught = TRUE]

\* lines 438-439: the job after an archive that could not be expanded
OnZipError(job, z) == [job EXCEPT !.zips = @ \ {z}, !.caught = TRUE]

\* lines 420-439, one turn of the first loop: the archive is extracted, its PDF members
\* are moved to the folder and the archive is removed; an archive that cannot be opened
\* is left where it is
ExpandZip(j) ==
    /\ jobs[j].pc = "zips"
    /\ \E z \in jobs[j].zips :
          LET zip == ContentOf(folder, z)
          IN  IF zip.kind = "zip"
              THEN \E members \in Orders(PdfMembers(zip)) :
                      LET moved == MoveMembers(folder, members, now)
                      IN  /\ folder' = RemoveFile(moved, z)
                          /\ jobs' = SetJob(j, [jobs[j] EXCEPT !.zips = @ \ {z}])
              ELSE /\ jobs' = SetJob(j, OnZipError(jobs[j], z))
                   /\ UNCHANGED folder
    /\ UNCHANGED <<CONTRACT_MAP, IS_PROCESSING, LAST_PROCESSING_SUMMARY, now, fg, nextJob>>

\* lines 442-444: the second walk lists the PDFs
WalkPdfs(j) ==
    /\ jobs[j].pc = "zips"
    /\ jobs[j].zips = {}
    /\ jobs' = SetJob(j, [jobs[j] EXCEPT !.pc = "pdfs",
                                         !.pdfs = {n \in DOMAIN folder : IsPdfName(n)}])
    /\ UNCHANGED <<CONTRACT_MAP, IS_PROCESSING, LAST_PROCESSING_SUMMARY, folder, now, fg,
                   nextJob>>

\* lines 445-449: a turn of the second loop opens the PDF and reads its first page
ReadPdf(j) ==
    /\ jobs[j].pc = "pdfs"
    /\ jobs[j].cur = <<>>
    /\ \E f \in jobs[j].pdfs :
          jobs' = SetJob(j, [jobs[j] EXCEPT !.pdfs = @ \ {f},
                                            !.cur = [name |-> f, content |-> ContentOf(folder, f)]])
    /\ UNCHANGED <<CONTRACT_MAP, IS_PROCESSING, LAST_PROCESSING_SUMMARY, folder, now, fg,
                   nextJob>>

\* lines 476-477: the job after a PDF whose processing raised
OnPdfError(job) == [job EXCEPT !.cur = <<>>, !.caught = TRUE]

\* the job after a PDF whose turn went through; an unreadable or missing PDF is a
\* failure the extraction functions have swallowed (lines 128-129, 163-165)
OnPdfDone(job) == [job EXCEPT !.cur = <<>>, !.caught = @ \/ job.cur.content.kind # "pdf"]

\* lines 450-477, the rest of the turn: match, name, move.  list(set(...)) gives the
\* candidates in any order; shutil.move raises when the file is gone, or for a reason
\* of the file system's own.
ResolvePdf(j) ==
    /\ jobs[j].pc = "pdfs"
    /\ jobs[j].cur # <<>>
    /\ LET f       == jobs[j].cur.name
           tokens  == Tokens[jobs[j].cur.content]
       IN  \E candidates \in Orders(tokens.candidates), moves \in BOOLEAN :
              LET found   == FirstInMap(candidates, CONTRACT_MAP)
                  desired == Basename(NewName(f, found, CONTRACT_MAP, tokens.invoice_number))
                  final   == AllocateName(desired, DOMAIN folder, now)
              IN  IF desired = f
                  THEN /\ moves
                       /\ jobs' = SetJob(j, OnPdfDone(jobs[j]))
                       /\ UNCHANGED folder
                  ELSE IF moves /\ f \in DOMAIN folder
                  THEN /\ folder' = MoveFile(folder, f, final)
                       /\ jobs' = SetJob(j, OnPdfDone(jobs[j]))
                  ELSE /\ jobs' = SetJob(j, OnPdfError(jobs[j]))
                       /\ UNCHANGED folder
    /\ UNCHANGED <<CONTRACT_MAP, IS_PROCESSING, LAST_PROCESSING_SUMMARY, now, fg, nextJob>>

\* lines 479-486: the loops are over; process_pending_files stores its own summary
PassEnd(j) ==
    /\ jobs[j].pc = "pdfs"
    /\ jobs[j].cur = <<>>
    /\ jobs[j].pdfs = {}
    /\ LAST_PROCESSING_SUMMARY' = Summary(1, 0)
    /\ jobs' = SetJob(j, [jobs[j] EXCEPT !.pc = "ret"])
    /\ UNCHANGED <<CONTRACT_MAP, IS_PROCESSING, folder, now, fg, nextJob>>

\* line 254
ClearFlag(j) ==
    /\ jobs[j].pc = "ret"
    /\ IS_PROCESSING' = FALSE
    /\ jobs' = SetJob(j, [jobs[j] EXCEPT !.pc = "else"])
    /\ UNCHANGED <<CONTRACT_MAP, LAST_PROCESSING_SUMMARY, folder, now, fg, nextJob>>

\* lines 259-260
StoreSummary(j) ==
    /\ jobs[j].pc = "else"
    /\ LAST_PROCESSING_SUMMARY' = Summary(1, jobs[j].save_errors)
    /\ jobs' = SetJob(j, [jobs[j] EXCEPT !.pc = "done", !.outcome = "Completed"])
    /\ UNCHANGED <<CONTRACT_MAP, IS_PROCESSING, folder, now, fg, nextJob>>

\* a variant of ExceptClearFlag that leaves the flag as it is
ExceptKeepsFlag(j) ==
    /\ jobs[j].pc = "except"
    /\ jobs' = SetJob(j, [jobs[j] EXCEPT !.pc = "except2"])
    /\ UNCHANGED <<CONTRACT_MAP, IS_PROCESSING, LAST_PROCESSING_SUMMARY, folder, now, fg,
                   nextJob>>

\* lines 255-256
ExceptClearFlag(j) ==
    /\ jobs[j].pc = "except"
    /\ IS_PROCESSING' = FALSE
    /\ jobs' = SetJob(j, [jobs[j] EXCEPT !.pc = "except2"])
    /\ UNCHANGED <<CONTRACT_MAP, LAST_PROCESSING_SUMMARY, folder, now, fg, nextJob>>

\* line 258
ExceptSummary(j) ==
    /\ jobs[j].pc = "except2"
    /\ LAST_PROCESSING_SUMMARY' = Summary(0, 1)
    /\ jobs' = SetJob(j, [jobs[j] EXCEPT !.pc = "done", !.outcome = "Failed"])
    /\ UNCHANGED <<CONTRACT_MAP, IS_PROCESSING, folder, now, fg, nextJob>>

JobStep(j) ==
    \/ JobStart(j)
    \/ PassBegin(j)
    \/ PassRaises(j)
    \/ ExpandZip(j)
    \/ WalkPdfs(j)
    \/ ReadPdf(j)
    \/ ResolvePdf(j)
    \/ PassEnd(j)
    \/ ClearFlag(j)
    \/ StoreSummary(j)
    \/ ExceptClearFlag(j)
    \/ ExceptSummary(j)

(***************************************************************************)
(* Specifications.                                                         *)
(***************************************************************************)
\* requests and jobs interleaved
Next ==
    \/ Tick
    \/ \E sheet \in FewSheets : upload_excel_begin(sheet)
    \/ upload_excel_row
    \/ \E batch \in FewBatches, inline \in BOOLEAN :
          \E failed \in SUBSET batch : process_pdfs(batch, failed, inline)
    \/ process_pdfs_return
    \/ \E j \in JobIds : JobStep(j)

Spec == Init /\ [][Next]_vars

\* the scheduler runs every job it was given, and a thread that can step does
FairSpec == Spec /\ \A j \in JobIds : WF_vars(JobStep(j))

\* spreadsheet uploads alone, over every spreadsheet of at most MaxRows rows
NextBuild ==
    \/ \E sheet \in AllSheets : upload_excel_begin(sheet)
    \/ upload_excel_row

SpecBuild == Init /\ [][NextBuild]_vars

\* one pass alone: the map is built, a batch of at most MaxUploads files is saved and
\* accepted, and its job is with the scheduler
InitPass ==
    /\ CONTRACT_MAP \in {AddRows(EmptyMap, RefCells(s)) : s \in {SheetAB, RefSheet(<<CellA>>)}}
    /\ IS_PROCESSING = FALSE
    /\ LAST_PROCESSING_SUMMARY = Summary(0, 0)
    /\ folder \in {SaveUploads(EmptyFolder, b, SecureNames) :
                      b \in {s \in SUBSET Uploads : s # {} /\ Cardinality(s) <= MaxUploads}}
    /\ now = 0
    /\ fg = Idle(<<>>)
    /\ jobs = [j \in JobIds |-> IF j = 1 THEN NewJob(FALSE, 0) ELSE NoJob]
    /\ nextJob = 2

NextPass ==
    \/ Tick
    \/ \E j \in JobIds : JobStep(j)

SpecPass == InitPass /\ [][NextPass]_vars

\* passes one after the other over the same folder: once the jobs so far are over, a
\* request that saves no file has the next pass run, the map being the same
NextAgain ==
    \/ Tick
    \/ \E inline \in BOOLEAN : (\A j \in JobIds : jobs[j].pc \in {"none", "done"})
                                   /\ process_pdfs_unnamed(inline)
    \/ process_pdfs_return
    \/ \E j \in JobIds : JobStep(j)

SpecAgain == InitPass /\ [][NextAgain]_vars

(***************************************************************************)
(* Properties.                                                             *)
(***************************************************************************)
\* the step of job j that ends the turn of a PDF (lines 450-477)
Resolves(j) == jobs[j].pc = "pdfs" /\ jobs[j].cur # <<>> /\ jobs'[j].cur = <<>>

\* the names the turn of job j may want for its PDF, one for each order of the candidates
DesiredNames(j) ==
    LET tokens == Tokens[jobs[j].cur.content]
    IN  {Basename(NewName(jobs[j].cur.name, FirstInMap(candidates, CONTRACT_MAP),
                          CONTRACT_MAP, tokens.invoice_number)) :
            candidates \in Orders(tokens.candidates)}

\* C1: the name allocated for a file a pass moves is a name no file of the folder had
\* when it was allocated, and it is the desired name whenever no file had that name
C1_AllocatedNameIsFree ==
    [][\A j \in JobIds :
          (Resolves(j) /\ folder' # folder) =>
             \E d \in DesiredNames(j), dest \in DOMAIN folder' \ DOMAIN folder :
                d \notin DOMAIN folder => dest = d]_vars

\* a job whose pass is at work on the folder: between its first listing and its end
InPass(j) == jobs[j].pc \in {"zips", "pdfs"}

\* C2: at no time are the passes of two jobs at work on the folder
C2_OnePassAtATime == Cardinality({j \in JobIds : InPass(j)}) <= 1

\* the position in the text of the first occurrence of a candidate
FirstOccurrence(text, c) ==
    CHOOSE i \in 1..Len(text) :
        /\ Match6At(text, i) /\ SubSeq(text, i, i + 5) = c
        /\ \A k \in 1..(i - 1) : ~(Match6At(text, k) /\ SubSeq(text, k, k + 5) = c)

\* the candidate of the text that is a key of the map and occurs first, <<>> when none is
EarliestKey(text, map) ==
    LET keys == {c \in Range(FindAll6(text, 1)) : c \in DOMAIN map}
    IN  IF keys = {} THEN <<>>
        ELSE CHOOSE c \in keys :
                \A d \in keys : FirstOccurrence(text, c) <= FirstOccurrence(text, d)

\* C3: the contract a pass matches a PDF to is the key of the map that occurs first in
\* the text of its first page: a PDF the pass moves goes to the name made from the
\* location of that contract (or to that name with the clock in front)
C3_FirstOccurrenceWins ==
    [][\A j \in JobIds :
          (Resolves(j) /\ jobs[j].cur.content.kind = "pdf" /\ folder' # folder) =>
             LET cur == jobs[j].cur
                 d   == Basename(NewName(cur.name, EarliestKey(cur.content.text, CONTRACT_MAP),
                                         CONTRACT_MAP, Tokens[cur.content].invoice_number))
             IN  \E dest \in {d, TimestampName(now, d)} :
                    dest \in DOMAIN folder' /\ folder'[dest] = cur.content]_vars

\* the map a spreadsheet stands for: empty without the sheet or the reference column,
\* else the location of the last matching row of each contract number
ExpectedMap(sheet) ==
    LET cols == IF sheet.sheet
                THEN {c \in 1..Len(sheet.columns) :
                         Contains(ReferenciaWord, ToLower(sheet.columns[c]))}
                ELSE {}
    IN  IF cols = {} THEN EmptyMap
        ELSE LET c       == CHOOSE x \in cols : \A y \in cols : x <= y
                 hit(i)  == SearchContrato(sheet.rows[i][c])
                 hits    == {i \in 1..Len(sheet.rows) : hit(i) # <<>>}
                 last(k) == CHOOSE i \in hits :
                               /\ hit(i)[1] = k
                               /\ \A h \in hits : hit(h)[1] = k => h <= i
             IN  [k \in {hit(i)[1] : i \in hits} |-> hit(last(k))[2]]

\* C4: while a spreadsheet upload rebuilds the map, a lookup of a pass sees the whole
\* map of before the upload or the whole map of the new spreadsheet
C4_LookupSeesWholeMap ==
    [][\A j \in JobIds :
          (Resolves(j) /\ Tokens[jobs[j].cur.content].candidates # {} /\ fg.pc = "rows") =>
             CONTRACT_MAP \in {fg.prev, ExpectedMap(fg.sheet)}]_vars

\* process_pdfs has answered the request of job j with 202
Accepted(j) == jobs[j].pc # "none" /\ ~(fg.pc = "inline" /\ fg.job = j)

\* process_pending_files has returned or raised in job j
PassOver(j) == jobs[j].pc \in {"ret", "else", "except", "except2", "done"}

\* C5: from the answer that accepts a batch until the pass of its job is over, a status
\* poll reports processing
C5_RunningOnceAccepted ==
    \A j \in JobIds : (Accepted(j) /\ ~PassOver(j)) => processing_status.processing

\* the pass of job j is over and raised nothing
PassCompleted(j) ==
    jobs[j].pc = "else" \/ (jobs[j].pc = "done" /\ jobs[j].outcome = "Completed")

\* C6: once the pass of the latest batch is over without an exception, and no earlier
\* job is still at work, a status poll that reports not processing carries the summary
\* of that batch: processed 1, errors the number of its uploads that could not be saved
C6_SummaryWithStatus ==
    \A j \in JobIds :
        ( /\ j = nextJob - 1
          /\ PassCompleted(j)
          /\ \A k \in JobIds \ {j} : jobs[k].pc \in {"none", "done"}
          /\ ~processing_status.processing )
        => processing_status.summary = Summary(1, jobs[j].save_errors)

\* C7: when a spreadsheet upload has returned, the map is the map of that spreadsheet:
\* the location of the last matching row of each of its contract numbers and no other
\* key, and the empty map when the sheet or the reference column is missing
C7_MapOfLastSpreadsheet ==
    (fg.pc = "idle" /\ fg.sheet # <<>>) => CONTRACT_MAP = ExpectedMap(fg.sheet)

\* an upload of two rows with the same contract number has returned: the map holds
\* the location of the second row alone
C7_RepeatedContract ==
    /\ fg.pc = "idle"
    /\ fg.sheet = RefSheet(<<CellC, CellA>>)
    /\ CONTRACT_MAP = SetItem(EmptyMap, <<"1", "2", "3", "4", "5", "6">>, <<"A">>)

\* C8: a job in which an archive or a PDF failed does not take the branch of the
\* unhandled exception and does not end Failed, and a job that ends Completed has given
\* a turn to every archive and every PDF it listed
C8_FileFailuresDoNotAbort ==
    \A j \in JobIds :
        /\ jobs[j].caught => (jobs[j].pc \notin {"except", "except2"} /\ jobs[j].outcome # "Failed")
        /\ jobs[j].outcome = "Completed" =>
              (jobs[j].zips = {} /\ jobs[j].pdfs = {} /\ jobs[j].cur = <<>>)

\* a job has ended Completed although the archive k.zip could not be opened (it is
\* still there), and a PDF listed after that failure was renamed
C8_CompletedAfterFailure ==
    \E j \in JobIds :
        /\ jobs[j].caught /\ jobs[j].outcome = "Completed"
        /\ UploadK.name \in DOMAIN folder
        /\ \E n \in DOMAIN folder : n \notin {SecureNames[u.name] : u \in Uploads} /\ IsPdfName(n)

\* C9: the turn of a pass that opens an archive adds one PDF to the folder for each
\* member whose name ends in .pdf, whatever its case and its directory, each with the
\* content of such a member, adds nothing else, and removes the archive
C9_ArchiveYieldsItsPdfs ==
    [][\A j \in JobIds : \A z \in jobs[j].zips :
          ( /\ jobs[j].pc = "zips"
            /\ z \notin jobs'[j].zips
            /\ ContentOf(folder, z).kind = "zip" ) =>
             LET pdfs  == {m \in folder[z].members : IsPdfName(m.path)}
                 added == DOMAIN folder' \ DOMAIN folder
             IN  /\ Cardinality(added) = Cardinality(pdfs)
                 /\ \A n \in added : IsPdfName(n) /\ \E m \in pdfs : folder'[n] = m.content
                 /\ z \notin DOMAIN folder']_vars

\* every job given to the scheduler or run by a handler is over
AllOver == \A j \in JobIds : jobs[j].pc \in {"none", "done"}

\* C10: every accepted batch leads to a job that ends Completed or Failed; a job ends
\* Failed with the summary processed 0, errors 1; and whenever every accepted batch
\* has ended, a status poll reports not processing
C10_EveryBatchEnds ==
    /\ \A j \in JobIds :
          (jobs[j].pc = "pending") ~> (jobs[j].outcome \in {"Completed", "Failed"})
    /\ [][\A j \in JobIds :
             (jobs[j].outcome # "Failed" /\ jobs'[j].outcome = "Failed") =>
                LAST_PROCESSING_SUMMARY' = Summary(0, 1)]_vars
    /\ [](AllOver => ~processing_status.processing)

\* two batches were accepted; one job ended Failed, the other Completed, and no poll
\* reports processing any more
C10_BothEnded ==
    /\ \E j, k \in JobIds : jobs[j].outcome = "Failed" /\ jobs[k].outcome = "Completed"
    /\ AllOver
    /\ ~processing_status.processing

\* C11: a pass that runs after a pass that ended Completed with no failure, over the
\* folder that pass left, with the same map and no new file, leaves the set of the names
\* of the folder as it is at each of its steps
C11_SecondPassKeepsNames ==
    [][\A k \in JobIds \ {1} :
          ( /\ jobs[k - 1].outcome = "Completed" /\ ~jobs[k - 1].caught
            /\ InPass(k)
            /\ jobs'[k] # jobs[k] ) =>
             DOMAIN folder' = DOMAIN folder]_vars

=============================================================================
